---- MODULE Spec2Model ----
(***************************************************************************)
(* Model of the overview parser (src/js/overviewParser.js) and of the     *)
(* pipeline ranking of the overview renderer (src/js/overviewRender.js).  *)
(*                                                                         *)
(* JavaScript values are tagged records:                                   *)
(*   [t |-> "undefined"], [t |-> "null"],                                  *)
(*   [t |-> "str", s |-> text, ms |-> parsed duration, len |-> length],    *)
(*   [t |-> "obj", entries |-> <<[key |-> k, val |-> v], ...>>]            *)
(* An object keeps its own keys in enumeration (insertion) order.  A key   *)
(* is the sequence of the tokens of its text, every decimal digit being a  *)
(* token of its own: "Fragment 03" is <<"Fragment ", "0", "3">>.           *)
(***************************************************************************)
EXTENDS Integers, Sequences, FiniteSets, TLC

VARIABLES doc, pc, outcome, result, pipelineRanks, timeline,
          currentQuery, listeners, notification

vars == <<doc, pc, outcome, result, pipelineRanks, timeline,
          currentQuery, listeners, notification>>

\* ------------------------------------------------------------------ bounds
MaxTime == 2
MaxFragKeys == 3
MaxPipes == 3
MaxOps == 3
MaxPlannerKeys == 3
MaxListeners == 3

\* ------------------------------------------------------------------ values
Undef == [t |-> "undefined"]
NullV == [t |-> "null"]
Str(text, millis, length) == [t |-> "str", s |-> text, ms |-> millis, len |-> length]
Obj(es) == [t |-> "obj", entries |-> es]
Entry(k, v) == [key |-> k, val |-> v]
EmptyObj == Obj(<<>>)

DigitTokens == {"0", "1", "2", "3", "4", "5", "6", "7", "8", "9"}
DigitVal(c) ==
    CASE c = "0" -> 0 [] c = "1" -> 1 [] c = "2" -> 2 [] c = "3" -> 3
      [] c = "4" -> 4 [] c = "5" -> 5 [] c = "6" -> 6 [] c = "7" -> 7
      [] c = "8" -> 8 [] c = "9" -> 9
DigitTok(n) ==
    CASE n = 0 -> "0" [] n = 1 -> "1" [] n = 2 -> "2" [] n = 3 -> "3"
      [] n = 4 -> "4" [] n = 5 -> "5" [] n = 6 -> "6" [] n = 7 -> "7"
      [] n = 8 -> "8" [] n = 9 -> "9"

\* !v : undefined, null and the empty string are falsy.
Falsy(v) == v.t \in {"undefined", "null"} \/ (v.t = "str" /\ v.len = 0)

\* a || b
OrElse(a, b) == IF Falsy(a) THEN b ELSE a

\* Reading a property of undefined or null raises a TypeError.
ThrowsOnRead(v) == v.t \in {"undefined", "null"}

\* for (const key in v): the own enumerable keys.  undefined and null have
\* none, a string has its indices, an object its keys in insertion order.
ForIn(v) ==
    CASE v.t = "obj" -> v.entries
      [] v.t = "str" -> [i \in 1..v.len |-> Entry(<<DigitTok(i - 1)>>, Str("c", 0, 1))]
      [] OTHER -> <<>>

\* v[key] for a v that is neither undefined nor null.
GetKey(v, k) ==
    IF v.t = "obj" /\ \E i \in 1..Len(v.entries) : v.entries[i].key = k
    THEN v.entries[CHOOSE i \in 1..Len(v.entries) : v.entries[i].key = k].val
    ELSE Undef
\* v.name
Get(v, name) == GetKey(v, <<name>>)

\* parseInt(digits) of a non-empty run of decimal digits, base 10.
RECURSIVE ParseInt(_)
ParseInt(ds) ==
    IF ds = <<>> THEN 0
    ELSE 10 * ParseInt(SubSeq(ds, 1, Len(ds) - 1)) + DigitVal(ds[Len(ds)])

\* The duration parser of utils.js: milliseconds of a formatted duration,
\* 0 when the value is absent or unparseable; it never raises.
parseNumericValue(v) == IF v.t = "str" THEN v.ms ELSE 0

\* ------------------------------------------------------------- key patterns
AllDigits(k, from, to) == from <= to /\ \A i \in from..to : k[i] \in DigitTokens

\* key.match(/^Fragment (\d+)$/)
FragmentMatch(k) == Len(k) >= 2 /\ k[1] = "Fragment " /\ AllDigits(k, 2, Len(k))
FragmentId(k) == ParseInt(SubSeq(k, 2, Len(k)))

\* pipelineKey.match(/^Pipeline \(id=(\d+)\)$/)
PipelineMatch(k) ==
    /\ Len(k) >= 3
    /\ k[1] = "Pipeline (id="
    /\ k[Len(k)] = ")"
    /\ AllDigits(k, 2, Len(k) - 1)
PipelineId(k) == ParseInt(SubSeq(k, 2, Len(k) - 1))

\* opKey.includes('(plan_node_id=')
OperatorMatch(k) == \E i \in 1..Len(k) : k[i] = "(plan_node_id="

\* ------------------------------------------------------------------ sorting
\* Array.prototype.sort with a comparator that orders by an integer key:
\* the stable ascending order.  SortPerm(keys)[p] is the index of the element
\* that ends at position p.
SortPos(keys, i) ==
    1 + Cardinality({j \in 1..Len(keys) :
                        keys[j] < keys[i] \/ (keys[j] = keys[i] /\ j < i)})
SortPerm(keys) ==
    [p \in 1..Len(keys) |-> CHOOSE i \in 1..Len(keys) : SortPos(keys, i) = p]
SortAsc(s, keys) == [p \in 1..Len(s) |-> s[SortPerm(keys)[p]]]
SortDesc(s, keys) == SortAsc(s, [i \in 1..Len(keys) |-> 0 - keys[i]])

RECURSIVE SumSeq(_)
SumSeq(s) == IF s = <<>> THEN 0 ELSE SumSeq(SubSeq(s, 1, Len(s) - 1)) + s[Len(s)]

\* ------------------------------------------------------------ extractFragments
\* opData.CommonMetrics?.OperatorTotalTime
OperatorTotalTime(opData) ==
    LET cm == Get(opData, "CommonMetrics")
    IN  IF cm.t \in {"undefined", "null"} THEN Undef ELSE Get(cm, "OperatorTotalTime")

\* The body of the operator loop for one matching key.
BuildOperator(e) ==
    [name |-> e.key,
     operatorTime |-> parseNumericValue(OperatorTotalTime(e.val)),
     operatorTimeStr |-> OrElse(OperatorTotalTime(e.val), Str("0ns", 0, 3))]

\* for (const opKey in pipelineData) { if (opKey.includes(...)) operators.push(...) }
RECURSIVE OperatorLoop(_, _, _)
OperatorLoop(es, i, operators) ==
    IF i > Len(es) THEN operators
    ELSE IF OperatorMatch(es[i].key)
         THEN OperatorLoop(es, i + 1, Append(operators, BuildOperator(es[i])))
         ELSE OperatorLoop(es, i + 1, operators)

\* SortOperators with the comparator's operands swapped (ascending).
SortOperatorsAscending(ops) == SortAsc(ops, [i \in 1..Len(ops) |-> ops[i].operatorTime])

\* pipeline.operators.sort((a, b) => b.operatorTime - a.operatorTime)
SortOperators(ops) == SortDesc(ops, [i \in 1..Len(ops) |-> ops[i].operatorTime])

\* The pipeline object built for one matching pipeline key.
BuildPipeline(fragmentId, e) ==
    [id |-> PipelineId(e.key),
     fragmentId |-> fragmentId,
     activeTime |-> parseNumericValue(Get(e.val, "ActiveTime")),
     driverTotalTime |-> parseNumericValue(Get(e.val, "DriverTotalTime")),
     scheduleTime |-> parseNumericValue(Get(e.val, "ScheduleTime")),
     inputEmptyTime |-> parseNumericValue(Get(e.val, "InputEmptyTime")),
     operators |-> SortOperators(OperatorLoop(ForIn(e.val), 1, <<>>))]

\* AddActiveTime with = written for +=.
AddActiveTimeAssigned(total, pipeline) == pipeline.activeTime

\* fragment.totalActiveTime += activeTime
AddActiveTime(total, pipeline) == total + pipeline.activeTime

\* for (const pipelineKey in fragmentData) { ... fragment.pipelines.push(pipeline);
\*                                           fragment.totalActiveTime += activeTime }
RECURSIVE PipelineLoop(_, _, _)
PipelineLoop(es, i, fragment) ==
    IF i > Len(es) THEN fragment
    ELSE IF PipelineMatch(es[i].key)
         THEN LET pipeline == BuildPipeline(fragment.id, es[i])
              IN  PipelineLoop(es, i + 1,
                      [fragment EXCEPT
                          !.pipelines = Append(@, pipeline),
                          !.totalActiveTime = AddActiveTime(@, pipeline)])
         ELSE PipelineLoop(es, i + 1, fragment)

\* The fragment object built for one matching fragment key.
BuildFragment(e) ==
    PipelineLoop(ForIn(e.val), 1,
                 [id |-> FragmentId(e.key), pipelines |-> <<>>, totalActiveTime |-> 0])

\* FragmentLoop with a key whose id is already present merged into the
\* fragment of that id.
RECURSIVE FragmentLoopMerged(_, _, _)
FragmentLoopMerged(es, i, fragments) ==
    IF i > Len(es) THEN fragments
    ELSE IF FragmentMatch(es[i].key)
         THEN LET fragment == BuildFragment(es[i])
                  seen == {j \in 1..Len(fragments) : fragments[j].id = fragment.id}
              IN  IF seen = {}
                  THEN FragmentLoopMerged(es, i + 1, Append(fragments, fragment))
                  ELSE FragmentLoopMerged(es, i + 1,
                           [fragments EXCEPT
                               ![CHOOSE j \in seen : TRUE].pipelines = @ \o fragment.pipelines,
                               ![CHOOSE j \in seen : TRUE].totalActiveTime =
                                   @ + fragment.totalActiveTime])
         ELSE FragmentLoopMerged(es, i + 1, fragments)

\* for (const key in execution) { ... fragments.push(fragment) }
RECURSIVE FragmentLoop(_, _, _)
FragmentLoop(es, i, fragments) ==
    IF i > Len(es) THEN fragments
    ELSE IF FragmentMatch(es[i].key)
         THEN FragmentLoop(es, i + 1, Append(fragments, BuildFragment(es[i])))
         ELSE FragmentLoop(es, i + 1, fragments)

\* SortFragments with the sort left out.
SortFragmentsSkipped(fs) == fs

\* fragments.sort((a, b) => a.id - b.id)
SortFragments(fs) == SortAsc(fs, [i \in 1..Len(fs) |-> fs[i].id])

extractFragments(execution) == SortFragments(FragmentLoop(ForIn(execution), 1, <<>>))

\* Where extractFragments raises a TypeError: pipelineData.ActiveTime with
\* pipelineData undefined or null, opData.CommonMetrics with opData undefined
\* or null.
PipelineThrows(pipelineData) ==
    \/ ThrowsOnRead(pipelineData)
    \/ \E i \in 1..Len(ForIn(pipelineData)) :
          /\ OperatorMatch(ForIn(pipelineData)[i].key)
          /\ ThrowsOnRead(ForIn(pipelineData)[i].val)
FragmentThrows(fragmentData) ==
    \E i \in 1..Len(ForIn(fragmentData)) :
       /\ PipelineMatch(ForIn(fragmentData)[i].key)
       /\ PipelineThrows(ForIn(fragmentData)[i].val)
extractFragmentsThrows(execution) ==
    \E i \in 1..Len(ForIn(execution)) :
       /\ FragmentMatch(ForIn(execution)[i].key)
       /\ FragmentThrows(ForIn(execution)[i].val)

\* ----------------------------------------------------------- analyzeFragments
\* fragments.reduce((sum, f) => sum + f.totalActiveTime, 0)
RECURSIVE ReduceActiveTime(_, _, _)
ReduceActiveTime(fs, i, sum) ==
    IF i > Len(fs) THEN sum ELSE ReduceActiveTime(fs, i + 1, sum + fs[i].totalActiveTime)

analyzeFragments(fragments, execution) ==
    [queryWallTime |-> parseNumericValue(Get(execution, "QueryExecutionWallTime")),
     totalActiveTime |-> ReduceActiveTime(fragments, 1, 0),
     fragments |-> fragments]

\* -------------------------------------------------------- extractPlannerTiming
(***************************************************************************)
(* A key of the Planner section is a record of the parts the pattern       *)
(*   /--\s*(\w+)\[.*?\]\s*([\d.]+)(ms|us|ns|s)?/i                           *)
(* looks at: dash (the text holds "--"), name (the word after "--" and     *)
(* white space), bracket ("[...]" follows the word), num (the run of       *)
(* digit and "." tokens after the bracket and white space) and unit (the   *)
(* letters that follow the number, one token each).                        *)
(* A number of milliseconds is the rational n / d, or NaN.                 *)
(***************************************************************************)
PKey(dash, name, bracket, num, unit) ==
    [dash |-> dash, name |-> name, bracket |-> bracket, num |-> num, unit |-> unit]

Rat(n, d) == [nan |-> FALSE, n |-> n, d |-> d]
NaN == [nan |-> TRUE, n |-> 0, d |-> 1]
Zero == Rat(0, 1)
RECURSIVE Gcd(_, _)
Gcd(a, b) == IF b = 0 THEN a ELSE Gcd(b, a % b)
Lowest(a) == Rat(a.n \div Gcd(a.n, a.d), a.d \div Gcd(a.n, a.d))
\* a === b for two numbers (false when either is NaN)
RatEq(a, b) == ~a.nan /\ ~b.nan /\ Lowest(a) = Lowest(b)
\* a > 0 (false for NaN)
Positive(a) == ~a.nan /\ a.n > 0

RECURSIVE Pow10(_)
Pow10(k) == IF k = 0 THEN 1 ELSE 10 * Pow10(k - 1)

\* String.prototype.toLowerCase on the letters and words the keys are made of.
LowerChar(c) ==
    CASE c = "M" -> "m" [] c = "S" -> "s" [] c = "U" -> "u" [] c = "N" -> "n"
      [] OTHER -> c
LowerName(w) ==
    CASE w \in {"Total", "TOTAL", "total"} -> "total"
      [] w \in {"Analyzer", "ANALYZER"} -> "analyzer"
      [] w = "Transformer" -> "transformer"
      [] w = "Optimizer" -> "optimizer"
      [] w = "ExecPlanBuild" -> "execplanbuild"
      [] w = "Deploy" -> "deploy"
      [] w = "Pending" -> "pending"
      [] OTHER -> w

\* key.match(...): the pattern is found.
PlannerMatch(k) == k.dash /\ k.name # "" /\ k.bracket /\ k.num # <<>>

\* parseFloat(match[2]) of a run of digits and dots: the longest prefix that
\* is a decimal number; NaN when that prefix holds no digit.
parseFloat(num) ==
    LET dots == {i \in 1..Len(num) : num[i] = "."}
        d1 == IF dots = {} THEN Len(num) + 1
              ELSE CHOOSE i \in dots : \A j \in dots : i <= j
        later == {i \in dots : i > d1}
        d2 == IF later = {} THEN Len(num) + 1
              ELSE CHOOSE i \in later : \A j \in later : i <= j
        intDs == SubSeq(num, 1, d1 - 1)
        fracDs == SubSeq(num, d1 + 1, d2 - 1)
    IN  IF intDs = <<>> /\ fracDs = <<>> THEN NaN
        ELSE Rat(ParseInt(intDs \o fracDs), Pow10(Len(fracDs)))

\* UnitOf with the pattern's i flag and toLowerCase left out.
UnitOfCaseSensitive(unit) ==
    LET two == IF Len(unit) >= 2 THEN SubSeq(unit, 1, 2) ELSE <<>>
    IN  IF two = <<"m", "s">> THEN "ms"
        ELSE IF two = <<"u", "s">> THEN "us"
        ELSE IF two = <<"n", "s">> THEN "ns"
        ELSE IF Len(unit) >= 1 /\ unit[1] = "s" THEN "s"
        ELSE "ms"

\* (match[3] || 'ms').toLowerCase(): the third group takes the first of
\* ms, us, ns, s that the text after the number starts with, if any.
UnitOf(unit) ==
    LET l == [i \in 1..Len(unit) |-> LowerChar(unit[i])]
        two == IF Len(l) >= 2 THEN SubSeq(l, 1, 2) ELSE <<>>
    IN  IF two = <<"m", "s">> THEN "ms"
        ELSE IF two = <<"u", "s">> THEN "us"
        ELSE IF two = <<"n", "s">> THEN "ns"
        ELSE IF Len(l) >= 1 /\ l[1] = "s" THEN "s"
        ELSE "ms"

\* Convert to milliseconds.
ToMillis(value, unit) ==
    IF value.nan THEN NaN
    ELSE IF unit = "s" THEN Rat(value.n * 1000, value.d)
    ELSE IF unit = "us" THEN Rat(value.n, value.d * 1000)
    ELSE IF unit = "ns" THEN Rat(value.n, value.d * 1000000)
    ELSE value

\* Map to our timing object.
SetBucket(timing, name, value) ==
    IF name = "total" THEN [timing EXCEPT !.total = value]
    ELSE IF name = "analyzer" THEN [timing EXCEPT !.analyzer = value]
    ELSE IF name = "transformer" THEN [timing EXCEPT !.transformer = value]
    ELSE IF name = "optimizer" THEN [timing EXCEPT !.optimizer = value]
    ELSE IF name = "execplanbuild" THEN [timing EXCEPT !.execPlanBuild = value]
    ELSE IF name = "deploy" THEN [timing EXCEPT !.deploy = value]
    ELSE timing

ZeroTiming ==
    [t |-> "timing", total |-> Zero, analyzer |-> Zero, transformer |-> Zero,
     optimizer |-> Zero, execPlanBuild |-> Zero, deploy |-> Zero]

\* for (const key of Object.keys(planner)) { ... }
RECURSIVE PlannerLoop(_, _, _)
PlannerLoop(es, i, timing) ==
    IF i > Len(es) THEN timing
    ELSE IF PlannerMatch(es[i].key)
         THEN PlannerLoop(es, i + 1,
                  SetBucket(timing, LowerName(es[i].key.name),
                            ToMillis(parseFloat(es[i].key.num), UnitOf(es[i].key.unit))))
         ELSE PlannerLoop(es, i + 1, timing)

\* TimingOrNull with >= written for >.
TimingOrNullAtZero(timing) ==
    IF ~timing.total.nan /\ timing.total.n >= 0 THEN timing ELSE NullV

\* return timing.total > 0 ? timing : null
TimingOrNull(timing) == IF Positive(timing.total) THEN timing ELSE NullV

extractPlannerTiming(planner) ==
    IF Falsy(planner) \/ planner.t # "obj" THEN NullV
    ELSE TimingOrNull(PlannerLoop(planner.entries, 1, ZeroTiming))

\* ------------------------------------------------------------- processOverview
NoResult == [t |-> "none"]

\* !query
QueryMissing(json) == Falsy(Get(json, "Query"))

Placeholder(v, text, length) == OrElse(v, Str(text, 0, length))

\* executionStatsOf with the placeholder of spill bytes mistaken for "N/A".
executionStatsOfSpillNA(execution) ==
    [allocatedMemory |-> Placeholder(Get(execution, "QueryAllocatedMemoryUsage"), "N/A", 3),
     peakMemory |-> Placeholder(Get(execution, "QueryPeakMemoryUsagePerNode"), "N/A", 3),
     cpuTime |-> Placeholder(Get(execution, "QueryCumulativeCpuTime"), "N/A", 3),
     operatorTime |-> Placeholder(Get(execution, "QueryCumulativeOperatorTime"), "N/A", 3),
     scanTime |-> Placeholder(Get(execution, "QueryCumulativeScanTime"), "N/A", 3),
     networkTime |-> Placeholder(Get(execution, "QueryCumulativeNetworkTime"), "N/A", 3),
     spillBytes |-> Placeholder(Get(execution, "QuerySpillBytes"), "N/A", 3)]

executionStatsOf(execution) ==
    [allocatedMemory |-> Placeholder(Get(execution, "QueryAllocatedMemoryUsage"), "N/A", 3),
     peakMemory |-> Placeholder(Get(execution, "QueryPeakMemoryUsagePerNode"), "N/A", 3),
     cpuTime |-> Placeholder(Get(execution, "QueryCumulativeCpuTime"), "N/A", 3),
     operatorTime |-> Placeholder(Get(execution, "QueryCumulativeOperatorTime"), "N/A", 3),
     scanTime |-> Placeholder(Get(execution, "QueryCumulativeScanTime"), "N/A", 3),
     networkTime |-> Placeholder(Get(execution, "QueryCumulativeNetworkTime"), "N/A", 3),
     spillBytes |-> Placeholder(Get(execution, "QuerySpillBytes"), "0 B", 3)]

\* The sections processOverview works on.
SummaryOf(json) == OrElse(Get(Get(json, "Query"), "Summary"), EmptyObj)
ExecutionOf(json) == OrElse(Get(Get(json, "Query"), "Execution"), EmptyObj)
PlannerOf(json) == OrElse(Get(Get(json, "Query"), "Planner"), EmptyObj)

\* The value processOverview returns when it raises nothing.
OverviewResult(json) ==
    LET execution == ExecutionOf(json)
        analysis == analyzeFragments(extractFragments(execution), execution)
    IN  [summary |-> SummaryOf(json),
         execution |-> execution,
         analysis |->
            [queryWallTime |-> analysis.queryWallTime,
             totalActiveTime |-> analysis.totalActiveTime,
             fragments |-> analysis.fragments,
             executionStats |-> executionStatsOf(execution),
             plannerTiming |-> extractPlannerTiming(PlannerOf(json))]]

\* How a call of processOverview ends.
OverviewOutcome(json) ==
    IF QueryMissing(json) THEN "FormatError"
    ELSE IF extractFragmentsThrows(ExecutionOf(json)) THEN "TypeError"
    ELSE "ok"

\* DocumentAfterOverview with the analysis cached on the argument
\* (json.analysis = analysis).
DocumentAfterOverviewCached(json) == Obj(Append(json.entries, Entry(<<"analysis">>, EmptyObj)))

\* The document after a call: the parser assigns to no property of its
\* argument and sorts only the arrays it built itself.
DocumentAfterOverview(json) == json

\* The query state store as its module leaves it: no query, no listener, and
\* no notification under way.
NoNotification ==
    [active |-> FALSE, op |-> "none", index |-> 0, length |-> 0,
     registered |-> <<>>, calls |-> <<>>]
StoreUntouched ==
    /\ currentQuery = NullV
    /\ listeners = <<>>
    /\ notification = NoNotification

ProcessOverview ==
    /\ pc = "loaded"
    /\ outcome' = OverviewOutcome(doc)
    /\ result' = IF OverviewOutcome(doc) = "ok" THEN OverviewResult(doc) ELSE NoResult
    /\ pc' = IF OverviewOutcome(doc) = "ok" THEN "processed" ELSE "failed"
    /\ doc' = DocumentAfterOverview(doc)
    /\ UNCHANGED <<pipelineRanks, timeline, currentQuery, listeners, notification>>

\* ------------------------------------------------------ renderPipelineTimeline
\* analysis.fragments.forEach(f => f.pipelines.forEach(p => allPipelines.push(p)))
RECURSIVE AllPipelines(_, _)
AllPipelines(fragments, i) ==
    IF i > Len(fragments) THEN <<>>
    ELSE fragments[i].pipelines \o AllPipelines(fragments, i + 1)

\* [...allPipelines].sort((a, b) => b.activeTime - a.activeTime)
SortByActive(ps) == SortDesc(ps, [i \in 1..Len(ps) |-> ps[i].activeTime])

\* `${fragmentId}-${id}`: the two integers are the text's two parts.
RankKey(fragmentId, id) == <<fragmentId, id>>

\* Map.prototype.set: a key already in the map keeps its place and takes the
\* new value.
MapSet(m, k, v) ==
    IF \E i \in 1..Len(m) : m[i].key = k
    THEN [i \in 1..Len(m) |-> IF m[i].key = k THEN Entry(k, v) ELSE m[i]]
    ELSE Append(m, Entry(k, v))

\* Map.prototype.get: undefined for a key the map does not hold.
MapGet(m, k) ==
    IF \E i \in 1..Len(m) : m[i].key = k
    THEN m[CHOOSE i \in 1..Len(m) : m[i].key = k].val
    ELSE 0

\* sortedByActive.forEach((pipeline, index) => pipelineRanks.set(key, index + 1))
RECURSIVE RankLoop(_, _, _)
RankLoop(sorted, i, m) ==
    IF i > Len(sorted) THEN m
    ELSE RankLoop(sorted, i + 1,
                  MapSet(m, RankKey(sorted[i].fragmentId, sorted[i].id), i))

RanksOf(analysis) ==
    IF Len(analysis.fragments) = 0 THEN <<>>
    ELSE RankLoop(SortByActive(AllPipelines(analysis.fragments, 1)), 1, <<>>)

\* pipelineRanks.get(`${fragment.id}-${pipeline.id}`) for a displayed pipeline
RankOf(m, fragment, pipeline) == MapGet(m, RankKey(fragment.id, pipeline.id))

\* --- the segments of one pipeline's bar, in percent of the bar
RatLess(a, b) == a.n * b.d < b.n * a.d
\* a - b
RatMinus(a, b) == Rat(a.n * b.d - b.n * a.d, a.d * b.d)
\* Math.max(a, b)
RatMax(a, b) == IF RatLess(a, b) THEN b ELSE a
Hundred == Rat(100, 1)

\* totalTime > 0 ? (time / totalTime) * 100 : 0
SegmentPct(time, totalTime) == IF totalTime > 0 THEN Rat(time * 100, totalTime) ELSE Zero

\* WaitingPct with Math.max(0, ...) left out.
WaitingPctUnclamped(activePct, schedulePct) == RatMinus(RatMinus(Hundred, activePct), schedulePct)

\* Math.max(0, 100 - activePct - schedulePct)
WaitingPct(activePct, schedulePct) ==
    RatMax(Zero, RatMinus(RatMinus(Hundred, activePct), schedulePct))

\* The row of one pipeline of a fragment: its segments and its rank.
TimelineRow(ranks, fragment, pipeline) ==
    LET totalTime == pipeline.driverTotalTime  \* driverTotalTime || 0, a number: 0 || 0 is 0
        activePct == SegmentPct(pipeline.activeTime, totalTime)
        schedulePct == SegmentPct(pipeline.scheduleTime, totalTime)
    IN  [pipeline |-> pipeline,
         activePct |-> activePct,
         schedulePct |-> schedulePct,
         waitingPct |-> WaitingPct(activePct, schedulePct),
         rank |-> RankOf(ranks, fragment, pipeline)]

\* [...fragment.pipelines].sort((a, b) => a.id - b.id)
SortPipelinesById(ps) == SortAsc(ps, [i \in 1..Len(ps) |-> ps[i].id])

\* analysis.fragments.map(fragment => sortedPipelines.map(...)): the rows of
\* every fragment; nothing for an analysis without a fragment.
TimelineOf(analysis, ranks) ==
    [f \in 1..Len(analysis.fragments) |->
        LET sortedPipelines == SortPipelinesById(analysis.fragments[f].pipelines)
        IN  [p \in 1..Len(sortedPipelines) |->
                TimelineRow(ranks, analysis.fragments[f], sortedPipelines[p])]]

RenderPipelineTimeline ==
    /\ pc = "processed"
    /\ pipelineRanks' = RanksOf(result.analysis)
    /\ timeline' = TimelineOf(result.analysis, RanksOf(result.analysis))
    /\ pc' = "rendered"
    /\ UNCHANGED <<doc, outcome, result, currentQuery, listeners, notification>>

Next == ProcessOverview \/ RenderPipelineTimeline

\* ------------------------------------------------------------------ documents
DurText(t) ==
    CASE t = 0 -> "0ms" [] t = 1 -> "1ms" [] t = 2 -> "2ms" [] t = 3 -> "3ms"
      [] t = 4 -> "4ms" [] OTHER -> "5ms"
\* A formatted duration of t milliseconds.
Dur(t) == Str(DurText(t), t, 3)

Field(name, v) == Entry(<<name>>, v)
\* A key the document may or may not hold.
Opt(name, v) == IF v = Undef THEN <<>> ELSE <<Field(name, v)>>

Document(query) == Obj(Opt("Query", query))
Query(summary, execution, planner) ==
    Obj(Opt("Summary", summary) \o Opt("Execution", execution) \o Opt("Planner", planner))

\* Sequences of at most n elements of S with pairwise different keys.
SeqsUpTo(S, n) == UNION {[1..k -> S] : k \in 0..n}
DistinctKeys(es) == \A i, j \in 1..Len(es) : i # j => es[i].key # es[j].key
EntrySeqs(S, n) == {es \in SeqsUpTo(S, n) : DistinctKeys(es)}

F3 == <<"Fragment ", "3">>
F03 == <<"Fragment ", "0", "3">>
F10 == <<"Fragment ", "1", "0">>
F1x == <<"Fragment ", "1", "x">>
P0 == <<"Pipeline (id=", "0", ")">>
P00 == <<"Pipeline (id=", "0", "0", ")">>
P1 == <<"Pipeline (id=", "1", ")">>
Pbare == <<"Pipeline ", "1">>
OpScan == <<"SCAN ", "(plan_node_id=", "0", ")">>
OpJoin == <<"JOIN ", "(plan_node_id=", "1", ")">>
OpBare == <<"(plan_node_id=">>
OpNot == <<"SCAN ", "plan_node_id=", "0">>

PipelineData(t) == Obj(<<Field("ActiveTime", Dur(t))>>)
OperatorData(t) ==
    Obj(<<Field("CommonMetrics", Obj(<<Field("OperatorTotalTime", Dur(t))>>))>>)

\* --- the Query level: sections present or absent, statistics present or absent
StatNames ==
    <<"QueryExecutionWallTime", "QueryAllocatedMemoryUsage",
      "QueryPeakMemoryUsagePerNode", "QueryCumulativeCpuTime",
      "QueryCumulativeOperatorTime", "QueryCumulativeScanTime",
      "QueryCumulativeNetworkTime", "QuerySpillBytes">>
StatsObj(present) ==
    Obj([i \in 1..Len(SelectSeq(StatNames, LAMBDA n : n \in present)) |->
            Field(SelectSeq(StatNames, LAMBDA n : n \in present)[i], Dur(1))])
StatNameSet == {StatNames[i] : i \in 1..Len(StatNames)}

SummaryPool == {Undef, EmptyObj, Obj(<<Field("Query ID", Str("q1", 0, 2))>>)}
TotalKey == PKey(TRUE, "Total", TRUE, <<"5", "7">>, <<"m", "s">>)
PlannerSectionPool == {Undef, EmptyObj, Str("abc", 0, 3), Obj(<<Entry(TotalKey, Str("", 0, 0))>>)}

\* --- malformed values below Query: null, a string or an object at the
\* fragment, the pipeline, the operator and the CommonMetrics level
MalformedOps ==
    {NullV, Str("x", 0, 1), EmptyObj, OperatorData(1),
     Obj(<<Field("CommonMetrics", NullV)>>),
     Obj(<<Field("CommonMetrics", Str("x", 0, 1))>>)}
MalformedPipelines ==
    {NullV, Str("x", 0, 1), EmptyObj, PipelineData(1),
     Obj(<<Field("ActiveTime", Str("abc", 0, 3))>>)}
        \cup {Obj(<<Field("ActiveTime", Dur(1)), Entry(OpScan, o)>>) : o \in MalformedOps}
MalformedFragments ==
    {NullV, Str("x", 0, 1), EmptyObj, Obj(<<Entry(Pbare, PipelineData(1)), Entry(P1, PipelineData(2))>>)}
        \cup {Obj(<<Entry(P0, p)>>) : p \in MalformedPipelines}
MalformedExecutions ==
    {Str("x", 0, 1)} \cup {Obj(<<Entry(F3, f)>>) : f \in MalformedFragments}

QueryLevelDocs ==
    {Document(Undef), Document(NullV), Obj(<<>>)}
        \cup {Document(Query(s, StatsObj(present), p)) :
                s \in SummaryPool, present \in SUBSET StatNameSet, p \in {Undef, EmptyObj}}
        \cup {Document(Query(s, e, p)) :
                s \in SummaryPool, e \in {Undef, NullV, EmptyObj}, p \in PlannerSectionPool}
        \cup {Document(Query(Undef, e, Undef)) : e \in MalformedExecutions}

Init ==
    /\ doc \in QueryLevelDocs
    /\ pc = "loaded"
    /\ outcome = "none"
    /\ result = NoResult
    /\ pipelineRanks = <<>>
    /\ timeline = <<>>
    /\ StoreUntouched

Spec == Init /\ [][Next]_vars

\* --- fragment keys: at most MaxFragKeys keys of the Execution section, some
\* parsing to the same id, one not matching the pattern
FragmentKeyPool == {F3, F03, F10, F1x}
FragmentValuePool == {NullV} \cup {Obj(<<Entry(P0, PipelineData(t))>>) : t \in 1..MaxTime}
FragmentEntries == {Entry(k, v) : k \in FragmentKeyPool, v \in FragmentValuePool}
FragmentDocs ==
    {Document(Query(Undef, Obj(es), Undef)) : es \in EntrySeqs(FragmentEntries, MaxFragKeys)}

InitFragments ==
    /\ doc \in FragmentDocs
    /\ pc = "loaded"
    /\ outcome = "none"
    /\ result = NoResult
    /\ pipelineRanks = <<>>
    /\ timeline = <<>>
    /\ StoreUntouched

SpecFragments == InitFragments /\ [][Next]_vars

\* --- pipelines: at most MaxPipes pipelines in all, each placed under one of
\* three fragment keys (two of them parsing to the same id) with one of two
\* pipeline keys (both parsing to the same id)
Placements ==
    {[fkey |-> f, key |-> k, val |-> PipelineData(t)] :
        f \in {F3, F03, F10}, k \in {P0, P00}, t \in 0..MaxTime}
PlacementSeqs ==
    {ps \in SeqsUpTo(Placements, MaxPipes) :
        \A i, j \in 1..Len(ps) :
            i # j => <<ps[i].fkey, ps[i].key>> # <<ps[j].fkey, ps[j].key>>}
\* The fragment keys of ps in the order of their first pipeline.
FirstPlaced(ps) ==
    SelectSeq([i \in 1..Len(ps) |-> [at |-> i, fkey |-> ps[i].fkey]],
              LAMBDA x : \A j \in 1..(x.at - 1) : ps[j].fkey # x.fkey)
PipelinesUnder(ps, f) ==
    LET mine == SelectSeq(ps, LAMBDA x : x.fkey = f)
    IN  [i \in 1..Len(mine) |-> Entry(mine[i].key, mine[i].val)]
PlacedExecution(ps) ==
    Obj([i \in 1..Len(FirstPlaced(ps)) |->
            Entry(FirstPlaced(ps)[i].fkey, Obj(PipelinesUnder(ps, FirstPlaced(ps)[i].fkey)))])
PipelineDocs == {Document(Query(Undef, PlacedExecution(ps), Undef)) : ps \in PlacementSeqs}

InitPipelines ==
    /\ doc \in PipelineDocs
    /\ pc = "loaded"
    /\ outcome = "none"
    /\ result = NoResult
    /\ pipelineRanks = <<>>
    /\ timeline = <<>>
    /\ StoreUntouched

SpecPipelines == InitPipelines /\ [][Next]_vars

\* --- operators: one fragment with one pipeline holding at most MaxOps
\* operator-like keys
OperatorKeyPool == {OpScan, OpJoin, OpBare, OpNot}
OperatorValuePool == {EmptyObj} \cup {OperatorData(t) : t \in 0..MaxTime}
OperatorEntries == {Entry(k, v) : k \in OperatorKeyPool, v \in OperatorValuePool}
OperatorDocs ==
    {Document(Query(Obj(<<Field("Query ID", Str("q1", 0, 2))>>),
                    Obj(<<Entry(F3, Obj(<<Entry(P0, Obj(<<Field("ActiveTime", Dur(1))>> \o es))>>))>>),
                    Undef)) :
        es \in EntrySeqs(OperatorEntries, MaxOps)}

InitOperators ==
    /\ doc \in OperatorDocs
    /\ pc = "loaded"
    /\ outcome = "none"
    /\ result = NoResult
    /\ pipelineRanks = <<>>
    /\ timeline = <<>>
    /\ StoreUntouched

SpecOperators == InitOperators /\ [][Next]_vars

\* --- planner keys: at most MaxPlannerKeys keys of the Planner section
PhaseNames ==
    {"Total", "TOTAL", "Analyzer", "Transformer", "Optimizer", "ExecPlanBuild",
     "Deploy", "Pending"}
PlannerKeyPool ==
    {PKey(TRUE, n, TRUE, num, <<"m", "s">>) : n \in PhaseNames, num \in {<<"0">>, <<"5">>}}
        \cup {PKey(FALSE, "Total", TRUE, <<"5">>, <<"m", "s">>)}
PlannerEntries == {Entry(k, Str("", 0, 0)) : k \in PlannerKeyPool}
PlannerDocs ==
    {Document(Query(Undef, Undef, Obj(es))) : es \in EntrySeqs(PlannerEntries, MaxPlannerKeys)}
        \cup {Document(Query(Undef, Undef, Undef))}

InitPlanner ==
    /\ doc \in PlannerDocs
    /\ pc = "loaded"
    /\ outcome = "none"
    /\ result = NoResult
    /\ pipelineRanks = <<>>
    /\ timeline = <<>>
    /\ StoreUntouched

SpecPlanner == InitPlanner /\ [][Next]_vars

\* --- units: one phase line with every number and unit text, alone (Total)
\* or after "-- Total[1] 57ms" (Analyzer)
NumberPool ==
    {<<"0">>, <<"2">>, <<"5", "7">>, <<"5", "0", "0">>, <<"2", "5", "0", "0", "0", "0">>,
     <<"1", ".", "5">>, <<".", "5">>, <<"1", ".", "2", ".", "3">>, <<".">>}
UnitPool ==
    {<<>>, <<"m", "s">>, <<"s">>, <<"u", "s">>, <<"n", "s">>,
     <<"M", "S">>, <<"S">>, <<"U", "s">>, <<"n", "S">>, <<"m">>, <<"s", "e", "c">>}
UnitDocs ==
    {Document(Query(Undef, Undef, Obj(<<Entry(PKey(TRUE, "Total", TRUE, num, u), Str("", 0, 0))>>))) :
        num \in NumberPool, u \in UnitPool}
        \cup {Document(Query(Undef, Undef,
                  Obj(<<Entry(TotalKey, Str("", 0, 0)),
                        Entry(PKey(TRUE, "Analyzer", TRUE, num, u), Str("", 0, 0))>>))) :
                num \in NumberPool, u \in UnitPool}

InitUnits ==
    /\ doc \in UnitDocs
    /\ pc = "loaded"
    /\ outcome = "none"
    /\ result = NoResult
    /\ pipelineRanks = <<>>
    /\ timeline = <<>>
    /\ StoreUntouched

SpecUnits == InitUnits /\ [][Next]_vars

\* ------------------------------------------------------------------- properties
Called == pc # "loaded"
Returned == outcome = "ok"
QueryOf(json) == Get(json, "Query")
HasQueryObject(json) == QueryOf(json).t = "obj"
NA == Str("N/A", 0, 3)
ZeroBytes == Str("0 B", 0, 3)

\* The FormatError alone: it is raised exactly for the documents without a
\* Query object, and then nothing is returned.
FormatErrorIffNoQuery ==
    Called => /\ (outcome = "FormatError") <=> ~HasQueryObject(doc)
              /\ outcome = "FormatError" => result = NoResult

\* C1: processOverview raises exactly when the document has no Query object,
\* and then returns nothing; for every document with a Query object it
\* returns a result.
C1_FailsIffNoQuery ==
    Called => /\ ~Returned <=> ~HasQueryObject(doc)
              /\ ~HasQueryObject(doc) => result = NoResult
              /\ HasQueryObject(doc) => result # NoResult

\* C2: for every document with a Query object processOverview completes
\* without raising, whatever is missing or malformed below Query.
C2_SoftDefaultNeverAborts ==
    (Called /\ HasQueryObject(doc)) => (Returned /\ result # NoResult)

\* C3: with a Query object whose Execution section is absent or empty the
\* fragments are the empty sequence and Analysis.totalActiveTime is 0; for
\* { Query: {} } every executionStats entry is "N/A", spillBytes is "0 B" and
\* plannerTiming is null.
ExecutionAbsentOrEmpty(json) == Get(QueryOf(json), "Execution") \in {Undef, NullV, EmptyObj}
C3_EmptyExecution ==
    (Called /\ HasQueryObject(doc) /\ ExecutionAbsentOrEmpty(doc)) =>
        /\ Returned
        /\ result.analysis.fragments = <<>>
        /\ result.analysis.totalActiveTime = 0
        /\ doc = Document(EmptyObj) =>
              /\ result.analysis.executionStats =
                    [allocatedMemory |-> NA, peakMemory |-> NA, cpuTime |-> NA,
                     operatorTime |-> NA, scanTime |-> NA, networkTime |-> NA,
                     spillBytes |-> ZeroBytes]
              /\ result.analysis.plannerTiming = NullV
C3_Witness ==
    /\ pc = "processed"
    /\ doc = Document(EmptyObj)
    /\ result.analysis.executionStats.spillBytes = ZeroBytes
    /\ result.analysis.fragments = <<>>

Fragments == result.analysis.fragments
ActiveTimes(ps) == [j \in 1..Len(ps) |-> ps[j].activeTime]

\* C4: each Fragment's totalActiveTime is the sum of the activeTime of the
\* Pipelines in its pipelines sequence, and Analysis.totalActiveTime is the
\* sum of the totalActiveTime of the Fragments in its fragments sequence.
C4_TotalsAreSums ==
    Returned =>
        /\ \A i \in 1..Len(Fragments) :
              Fragments[i].totalActiveTime = SumSeq(ActiveTimes(Fragments[i].pipelines))
        /\ result.analysis.totalActiveTime =
              SumSeq([i \in 1..Len(Fragments) |-> Fragments[i].totalActiveTime])
C4_Witness ==
    /\ pc = "processed"
    /\ Len(Fragments) >= 2
    /\ \E i \in 1..Len(Fragments) :
          /\ Len(Fragments[i].pipelines) >= 2
          /\ \A j \in 1..Len(Fragments[i].pipelines) : Fragments[i].pipelines[j].activeTime > 0
    /\ result.analysis.totalActiveTime >= 3

\* The keys of v that match, in enumeration order.
MatchingKeys(v, Keep(_)) ==
    LET es == SelectSeq(ForIn(v), LAMBDA e : Keep(e.key))
    IN  [i \in 1..Len(es) |-> es[i].key]

\* C5 as stated: the fragments returned are strictly increasing by id, no two
\* carry the same id, also when "Fragment 3" and "Fragment 03" both match.
C5_StrictlyIncreasingIds ==
    Returned => \A i \in 1..(Len(Fragments) - 1) : Fragments[i].id < Fragments[i + 1].id

\* C5 amended: one fragment per matching key, non-decreasing by id; two
\* fragments carry the same id when their keys parse to the same integer, and
\* the ids are strictly increasing when all matching keys parse differently.
C5_NonDecreasingIds ==
    Returned =>
        LET keys == MatchingKeys(ExecutionOf(doc), FragmentMatch)
        IN  /\ Len(Fragments) = Len(keys)
            /\ \A i \in 1..(Len(Fragments) - 1) : Fragments[i].id <= Fragments[i + 1].id
            /\ \A n \in 0..10 :
                  Cardinality({i \in 1..Len(Fragments) : Fragments[i].id = n})
                      = Cardinality({i \in 1..Len(keys) : ParseInt(Tail(keys[i])) = n})
            /\ (\A i, j \in 1..Len(keys) : i # j => ParseInt(Tail(keys[i])) # ParseInt(Tail(keys[j])))
                  => \A i \in 1..(Len(Fragments) - 1) : Fragments[i].id < Fragments[i + 1].id
C5_Witness ==
    /\ pc = "processed"
    /\ Len(Fragments) = 3
    /\ ForIn(ExecutionOf(doc))[1].key = F10
    /\ Fragments[1].id = 3 /\ Fragments[2].id = 3 /\ Fragments[3].id = 10

\* C6: in every Pipeline the operators sequence holds exactly one entry per
\* key of the pipeline object containing "(plan_node_id=", is non-increasing
\* by operatorTime, and keeps operators of equal operatorTime in encounter
\* order.
IndexOfKey(keys, k) == CHOOSE i \in 1..Len(keys) : keys[i] = k
C6_OperatorsSorted ==
    Returned =>
        \A f \in 1..Len(Fragments) : \A p \in 1..Len(Fragments[f].pipelines) :
            LET ops == Fragments[f].pipelines[p].operators
                data == GetKey(GetKey(ExecutionOf(doc), F3), P0)
                keys == MatchingKeys(data, OperatorMatch)
            IN  /\ Len(ops) = Len(keys)
                /\ \A i \in 1..Len(keys) : \E j \in 1..Len(ops) :
                      /\ ops[j].name = keys[i]
                      /\ ops[j].operatorTime =
                            parseNumericValue(OperatorTotalTime(GetKey(data, keys[i])))
                /\ \A i \in 1..(Len(ops) - 1) : ops[i].operatorTime >= ops[i + 1].operatorTime
                /\ \A i, j \in 1..Len(ops) :
                      (i < j /\ ops[i].operatorTime = ops[j].operatorTime)
                          => IndexOfKey(keys, ops[i].name) < IndexOfKey(keys, ops[j].name)
C6_Witness ==
    /\ pc = "processed"
    /\ Len(Fragments) = 1 /\ Len(Fragments[1].pipelines) = 1
    /\ LET ops == Fragments[1].pipelines[1].operators
           keys == MatchingKeys(GetKey(GetKey(ExecutionOf(doc), F3), P0), OperatorMatch)
       IN  /\ Len(ops) = 3
           /\ Len(ForIn(GetKey(GetKey(ExecutionOf(doc), F3), P0))) = 4
           /\ ops[1].operatorTime = 2 /\ ops[2].operatorTime = 1 /\ ops[3].operatorTime = 1
           /\ ops[1].name = keys[3] /\ ops[2].name = keys[1] /\ ops[3].name = keys[2]

\* C7: with at least one pipeline, the rank looked up by (fragmentId, id) is 1
\* for a pipeline of maximal activeTime and for no pipeline of smaller
\* activeTime, and every looked-up rank is the pipeline's 1-based position in
\* the stable activeTime-descending order of all pipelines, also when two
\* pipelines share the same (fragmentId, id) pair.
C7_RankOneIsMaxActive ==
    (pc = "rendered" /\ AllPipelines(Fragments, 1) # <<>>) =>
        LET all == AllPipelines(Fragments, 1)
            at == {fp \in (1..Len(Fragments)) \X (1..Len(all)) :
                      fp[2] <= Len(Fragments[fp[1]].pipelines)}
            pipe(fp) == Fragments[fp[1]].pipelines[fp[2]]
            rank(fp) == RankOf(pipelineRanks, Fragments[fp[1]], pipe(fp))
            flat(fp) == Len(AllPipelines(SubSeq(Fragments, 1, fp[1] - 1), 1)) + fp[2]
            max == CHOOSE m \in {all[i].activeTime : i \in 1..Len(all)} :
                      \A i \in 1..Len(all) : all[i].activeTime <= m
        IN  /\ \E fp \in at : pipe(fp).activeTime = max /\ rank(fp) = 1
            /\ \A fp \in at : rank(fp) = 1 => pipe(fp).activeTime = max
            /\ \A fp \in at : rank(fp) = SortPos([i \in 1..Len(all) |-> 0 - all[i].activeTime], flat(fp))

PlannerKeys == LET pl == PlannerOf(doc) IN [i \in 1..Len(pl.entries) |-> pl.entries[i].key]
\* The indices of the Planner keys whose parsed phase is the given one.
PhaseLines(phase) ==
    {i \in 1..Len(PlannerKeys) :
        PlannerMatch(PlannerKeys[i]) /\ LowerName(PlannerKeys[i].name) = phase}
LastLine(phase) == CHOOSE i \in PhaseLines(phase) : \A j \in PhaseLines(phase) : j <= i
LineMillis(i) == ToMillis(parseFloat(PlannerKeys[i].num), UnitOf(PlannerKeys[i].unit))
\* The bucket of a phase after all keys: 0 when no key names the phase, else
\* the value of the last key that does.
BucketAfter(phase) == IF PhaseLines(phase) = {} THEN Zero ELSE LineMillis(LastLine(phase))
Timing == result.analysis.plannerTiming

\* C8: extractPlannerTiming returns the six-bucket record if and only if the
\* total bucket ended strictly greater than 0, and null otherwise, so when no
\* key's phase is total or the Planner section is absent; a returned record
\* holds 0 in every bucket whose phase was never matched, and keys with an
\* unrecognised phase name change no bucket.
C8_TimingIffPositiveTotal ==
    Returned =>
        /\ (Timing # NullV) <=> Positive(BucketAfter("total"))
        /\ PhaseLines("total") = {} => Timing = NullV
        /\ Get(QueryOf(doc), "Planner") = Undef => Timing = NullV
        /\ Timing # NullV =>
              /\ Timing.total = BucketAfter("total")
              /\ Timing.analyzer = BucketAfter("analyzer")
              /\ Timing.transformer = BucketAfter("transformer")
              /\ Timing.optimizer = BucketAfter("optimizer")
              /\ Timing.execPlanBuild = BucketAfter("execplanbuild")
              /\ Timing.deploy = BucketAfter("deploy")
C8_Witness ==
    /\ pc = "processed"
    /\ Len(PlannerKeys) = 3
    /\ PhaseLines("pending") # {}
    /\ PhaseLines("analyzer") # {}
    /\ PhaseLines("total") # {}
    /\ Timing # NullV
    /\ Timing.total = Rat(5, 1) /\ Timing.analyzer = Rat(5, 1) /\ Timing.deploy = Zero
C8_WitnessNull ==
    /\ pc = "processed"
    /\ PhaseLines("analyzer") # {} /\ PhaseLines("total") = {}
    /\ Timing = NullV

\* C9: the captured number is converted to milliseconds by its unit, matched
\* case-insensitively: s multiplies by 1000, ms leaves the value, us divides
\* by 1000, ns divides by 1000000, no unit counts as ms; "-- Total[1] 2s"
\* gives 2000, "-- Total[1] 500us" 0.5 and "-- Total[1] 250000ns" 0.25.
\* (A captured text without a digit, ".", is no number: it stays NaN.)
UnitTexts(u) ==
    CASE u = "s" -> {<<"s">>, <<"S">>}
      [] u = "ms" -> {<<"m", "s">>, <<"M", "S">>, <<>>}
      [] u = "us" -> {<<"u", "s">>, <<"U", "s">>}
      [] u = "ns" -> {<<"n", "s">>, <<"n", "S">>}
\* The bucket the document's last key writes, when a record is returned.
LastKey == PlannerKeys[Len(PlannerKeys)]
LastBucket == IF LowerName(LastKey.name) = "total" THEN Timing.total ELSE Timing.analyzer
C9_UnitConversion ==
    (Returned /\ Timing # NullV) =>
        LET v == parseFloat(LastKey.num)
            got == LastBucket
        IN  /\ v.nan => got.nan
            /\ (~v.nan /\ LastKey.unit \in UnitTexts("s")) => RatEq(got, Rat(v.n * 1000, v.d))
            /\ (~v.nan /\ LastKey.unit \in UnitTexts("ms")) => RatEq(got, Rat(v.n, v.d))
            /\ (~v.nan /\ LastKey.unit \in UnitTexts("us")) => RatEq(got, Rat(v.n, v.d * 1000))
            /\ (~v.nan /\ LastKey.unit \in UnitTexts("ns")) => RatEq(got, Rat(v.n, v.d * 1000000))
            /\ (LastKey.name = "Total" /\ LastKey.num = <<"2">> /\ LastKey.unit = <<"s">>)
                  => RatEq(got, Rat(2000, 1))
            /\ (LastKey.name = "Total" /\ LastKey.num = <<"5", "0", "0">> /\ LastKey.unit = <<"u", "s">>)
                  => RatEq(got, Rat(1, 2))
            /\ (LastKey.name = "Total" /\ LastKey.num = <<"2", "5", "0", "0", "0", "0">>
                    /\ LastKey.unit = <<"n", "s">>)
                  => RatEq(got, Rat(1, 4))
C9_Witness ==
    /\ pc = "processed"
    /\ Timing # NullV
    /\ LastKey.name = "Total" /\ LastKey.num = <<"5", "0", "0">> /\ LastKey.unit = <<"U", "s">>
    /\ RatEq(Timing.total, Rat(1, 2))

BarData(a, s, d) ==
    Obj(<<Field("ActiveTime", Dur(a)), Field("ScheduleTime", Dur(s)),
          Field("DriverTotalTime", Dur(d))>>)
BarPool == {BarData(a, s, d) : a \in 0..MaxTime, s \in 0..MaxTime, d \in 0..MaxTime}
BarEntries ==
    {<<>>} \cup {<<Entry(P1, b)>> : b \in BarPool}
           \cup {<<Entry(P1, b1), Entry(P0, b0)>> : b1 \in BarPool, b0 \in BarPool}
BarDocs ==
    {Document(Query(Undef, Obj(<<Entry(F3, Obj(es))>>), Undef)) : es \in BarEntries}

InitBars ==
    /\ doc \in BarDocs
    /\ pc = "loaded"
    /\ outcome = "none"
    /\ result = NoResult
    /\ pipelineRanks = <<>>
    /\ timeline = <<>>
    /\ StoreUntouched

SpecBars == InitBars /\ [][Next]_vars

\* The rows rendered, in one sequence.
RECURSIVE Rows(_, _)
Rows(tl, i) == IF i > Len(tl) THEN <<>> ELSE tl[i] \o Rows(tl, i + 1)
\* a is the fraction n / d of the whole bar, in percent
IsPctOf(a, n, d) == ~a.nan /\ a.n * d = 100 * n * a.d
NonNegative(a) == ~a.nan /\ a.n >= 0 /\ a.d > 0

\* C11 as stated: activePct = activeTime/driverTotalTime, schedulePct =
\* scheduleTime/driverTotalTime and waitingPct = max(0, 1 - activePct -
\* schedulePct) of the whole bar; all three are 0 when driverTotalTime is 0;
\* waitingPct is never negative.
C11_AllZeroWithoutDriverTime ==
    pc = "rendered" =>
        \A i \in 1..Len(Rows(timeline, 1)) :
            LET r == Rows(timeline, 1)[i]
                p == r.pipeline
                rest == p.driverTotalTime - p.activeTime - p.scheduleTime
            IN  /\ NonNegative(r.waitingPct)
                /\ p.driverTotalTime > 0 =>
                      /\ IsPctOf(r.activePct, p.activeTime, p.driverTotalTime)
                      /\ IsPctOf(r.schedulePct, p.scheduleTime, p.driverTotalTime)
                      /\ IsPctOf(r.waitingPct, IF rest > 0 THEN rest ELSE 0, p.driverTotalTime)
                /\ p.driverTotalTime = 0 =>
                      /\ r.activePct = Zero /\ r.schedulePct = Zero /\ r.waitingPct = Zero

\* C11 amended: as above, but with driverTotalTime 0 only activePct and
\* schedulePct are 0, and waitingPct is the whole bar (100 percent).
C11_Breakdown ==
    pc = "rendered" =>
        \A i \in 1..Len(Rows(timeline, 1)) :
            LET r == Rows(timeline, 1)[i]
                p == r.pipeline
                rest == p.driverTotalTime - p.activeTime - p.scheduleTime
            IN  /\ NonNegative(r.waitingPct)
                /\ p.driverTotalTime > 0 =>
                      /\ IsPctOf(r.activePct, p.activeTime, p.driverTotalTime)
                      /\ IsPctOf(r.schedulePct, p.scheduleTime, p.driverTotalTime)
                      /\ IsPctOf(r.waitingPct, IF rest > 0 THEN rest ELSE 0, p.driverTotalTime)
                /\ p.driverTotalTime = 0 =>
                      /\ r.activePct = Zero /\ r.schedulePct = Zero
                      /\ IsPctOf(r.waitingPct, 1, 1)
C11_Witness ==
    /\ pc = "rendered"
    /\ Len(Rows(timeline, 1)) = 2
    /\ LET r == Rows(timeline, 1)
       IN  /\ r[1].pipeline.id = 0 /\ r[2].pipeline.id = 1
           /\ r[1].pipeline.driverTotalTime = 0 /\ r[1].pipeline.activeTime = 1
           /\ IsPctOf(r[1].waitingPct, 1, 1)
           /\ r[2].pipeline.driverTotalTime = 1 /\ r[2].pipeline.activeTime = 2
           /\ r[2].waitingPct.n = 0 /\ IsPctOf(r[2].activePct, 2, 1)

\* The pipelines found under one fragment key's value: id and active time of
\* every key matching the Pipeline pattern, in encounter order.
PipelinesUnderKey(v) ==
    LET ks == MatchingKeys(v, PipelineMatch)
    IN  [j \in 1..Len(ks) |->
            [id |-> ParseInt(SubSeq(ks[j], 2, Len(ks[j]) - 1)),
             activeTime |-> Get(GetKey(v, ks[j]), "ActiveTime").ms]]
PipelinesHeld(fragment) ==
    [j \in 1..Len(fragment.pipelines) |->
        [id |-> fragment.pipelines[j].id, activeTime |-> fragment.pipelines[j].activeTime]]

\* C12: keys of the Execution section that match the Fragment pattern and
\* parse to the same id each stay a separate Fragment entry (no merging, no
\* de-duplication); after the id-ascending sort the entries of equal id are in
\* document encounter order, each holding only the pipelines of its own key.
C12_DuplicateIdsKeptInEncounterOrder ==
    Returned =>
        LET es == SelectSeq(ForIn(ExecutionOf(doc)), LAMBDA e : FragmentMatch(e.key))
        IN  \A n \in 0..10 :
                LET same == SelectSeq(es, LAMBDA e : ParseInt(Tail(e.key)) = n)
                    got == SelectSeq(Fragments, LAMBDA f : f.id = n)
                IN  /\ Len(got) = Len(same)
                    /\ \A i \in 1..Len(got) :
                          PipelinesHeld(got[i]) = PipelinesUnderKey(same[i].val)
C12_Witness ==
    /\ pc = "processed"
    /\ Len(Fragments) = 3
    /\ ForIn(ExecutionOf(doc))[1].key = F10
    /\ ForIn(ExecutionOf(doc))[2].key = F03
    /\ ForIn(ExecutionOf(doc))[3].key = F3
    /\ Fragments[3].id = 10
    /\ ActiveTimes(Fragments[1].pipelines) = <<2>>
    /\ ActiveTimes(Fragments[2].pipelines) = <<1>>

\* ------------------------------------------------------- query state store
\* The callbacks a page registers, and the queries it stores.
Callbacks == {"A", "B", "C"}
StoredQuery(id) ==
    Obj(<<Field("Query", Obj(<<Field("Summary", Obj(<<Field("Query ID", Str(id, 0, 2))>>))>>))>>)
QueryPool == {StoredQuery("q1"), StoredQuery("q2")}

\* listeners.indexOf(callback), 1-based; 0 for "not found" (-1)
indexOf(ls, callback) ==
    IF \E i \in 1..Len(ls) : ls[i] = callback
    THEN CHOOSE i \in 1..Len(ls) : ls[i] = callback /\ \A j \in 1..(i - 1) : ls[j] # callback
    ELSE 0
\* listeners.splice(index, 1)
Spliced(ls, index) == SubSeq(ls, 1, index - 1) \o SubSeq(ls, index + 1, Len(ls))
\* removeListener: the first occurrence goes, the later entries move down
ListenersWithout(ls, callback) ==
    IF indexOf(ls, callback) > 0 THEN Spliced(ls, indexOf(ls, callback)) ELSE ls
\* addListener: listeners.push(callback)
ListenersWith(ls, callback) == Append(ls, callback)

\* What a callback does when it is called: it returns, it throws, or it
\* removes or adds a listener and returns.
Effects ==
    {[kind |-> k, callback |-> "none"] : k \in {"return", "throw"}}
        \cup {[kind |-> k, callback |-> cb] : k \in {"removeListener", "addListener"}, cb \in Callbacks}
ListenersAfter(ls, effect) ==
    CASE effect.kind = "removeListener" -> ListenersWithout(ls, effect.callback)
      [] effect.kind = "addListener" -> ListenersWith(ls, effect.callback)
      [] OTHER -> ls

\* notifyListeners() is entered: forEach reads listeners.length once.
NotificationStarted(op, ls) ==
    [active |-> TRUE, op |-> op, index |-> 0, length |-> Len(ls),
     registered |-> ls, calls |-> <<>>]

Idle == pc = "store" /\ ~notification.active

AddListener ==
    /\ Idle
    /\ Len(listeners) < MaxListeners
    /\ \E callback \in Callbacks : listeners' = ListenersWith(listeners, callback)
    /\ UNCHANGED <<doc, pc, outcome, result, pipelineRanks, timeline, currentQuery, notification>>

RemoveListener ==
    /\ Idle
    /\ \E callback \in Callbacks : listeners' = ListenersWithout(listeners, callback)
    /\ UNCHANGED <<doc, pc, outcome, result, pipelineRanks, timeline, currentQuery, notification>>

SetQuery ==
    /\ Idle
    /\ \E queryJson \in QueryPool : currentQuery' = queryJson
    /\ notification' = NotificationStarted("setQuery", listeners)
    /\ UNCHANGED <<doc, pc, outcome, result, pipelineRanks, timeline, listeners>>

ClearQuery ==
    /\ Idle
    /\ currentQuery' = NullV
    /\ notification' = NotificationStarted("clearQuery", listeners)
    /\ UNCHANGED <<doc, pc, outcome, result, pipelineRanks, timeline, listeners>>

\* initQueryState: loadFromHash() gives null or the query of the URL hash.
InitQueryState ==
    /\ Idle
    /\ \E hashQuery \in {NullV} \cup QueryPool :
          IF Falsy(hashQuery)
          THEN UNCHANGED <<currentQuery, notification>>
          ELSE /\ currentQuery' = hashQuery
               /\ notification' = NotificationStarted("initQueryState", listeners)
    /\ UNCHANGED <<doc, pc, outcome, result, pipelineRanks, timeline, listeners>>

\* One turn of listeners.forEach: the callback at the index is called with
\* currentQuery, inside try/catch; what it does to listeners takes effect at once.
CallListener ==
    /\ pc = "store" /\ notification.active
    /\ notification.index < notification.length
    /\ notification.index < Len(listeners)
    /\ \E effect \in Effects :
          /\ effect.kind = "addListener" => Len(listeners) < MaxListeners
          /\ listeners' = ListenersAfter(listeners, effect)
          /\ notification' =
                [notification EXCEPT
                    !.index = @ + 1,
                    !.calls = Append(@, [listener |-> listeners[notification.index + 1],
                                         arg |-> currentQuery,
                                         effect |-> effect.kind])]
    /\ UNCHANGED <<doc, pc, outcome, result, pipelineRanks, timeline, currentQuery>>

\* One turn of listeners.forEach at an index the array no longer has: forEach
\* passes over it.
PassMissingIndex ==
    /\ pc = "store" /\ notification.active
    /\ notification.index < notification.length
    /\ notification.index >= Len(listeners)
    /\ notification' = [notification EXCEPT !.index = @ + 1]
    /\ UNCHANGED <<doc, pc, outcome, result, pipelineRanks, timeline, currentQuery, listeners>>

\* forEach is through; notifyListeners and its caller return.
NotifyListenersReturns ==
    /\ pc = "store" /\ notification.active
    /\ notification.index = notification.length
    /\ notification' = [notification EXCEPT !.active = FALSE]
    /\ UNCHANGED <<doc, pc, outcome, result, pipelineRanks, timeline, currentQuery, listeners>>

NextStore ==
    \/ AddListener
    \/ RemoveListener
    \/ SetQuery
    \/ ClearQuery
    \/ InitQueryState
    \/ CallListener
    \/ PassMissingIndex
    \/ NotifyListenersReturns

InitStore ==
    /\ doc = Undef
    /\ pc = "store"
    /\ outcome = "none"
    /\ result = NoResult
    /\ pipelineRanks = <<>>
    /\ timeline = <<>>
    /\ currentQuery = NullV
    /\ listeners = <<>>
    /\ notification = NoNotification

SpecStore == InitStore /\ [][NextStore]_vars

\* C13: every setQuery and every clearQuery first updates the current query
\* and then calls each listener registered when the notification starts
\* exactly once, in registration order, with the new current query (null after
\* clearQuery), also when an earlier listener throws or calls removeListener
\* or addListener during the notification. Stated for the moment the
\* notification of a setQuery or clearQuery has returned.
C13_EveryRegisteredListenerCalledOnce ==
    (~notification.active /\ notification.op \in {"setQuery", "clearQuery"}) =>
        /\ notification.op = "clearQuery" => currentQuery = NullV
        /\ notification.op = "setQuery" => currentQuery \in QueryPool
        /\ Len(notification.calls) = Len(notification.registered)
        /\ \A i \in 1..Len(notification.calls) :
              /\ notification.calls[i].listener = notification.registered[i]
              /\ notification.calls[i].arg = currentQuery

====
